---- MODULE Spec2Model ----
(***************************************************************************)
(* node-cmb-open: the CMB open-platform client of src/src/index.ts.        *)
(*                                                                         *)
(* Strings are sequences of UTF-16 code units (all ASCII here), so that    *)
(* sorting, joining, percent-encoding and JSON parsing are computed        *)
(* character by character.  A JavaScript object is the sequence of its     *)
(* [k, v] members in insertion order (the order Object.keys reports for    *)
(* keys that are not array indices; no key of the model is one).  A value  *)
(* is a record [t, n, s]: a number (t = "num", n), a string (t = "str", s) *)
(* or undefined (t = "undef").                                             *)
(*                                                                         *)
(* RSA-SHA256 is modelled as an ideal signature: the signature of a        *)
(* message under a private key is the key material followed by the         *)
(* message, so two signatures are equal exactly when key and message are,  *)
(* and a public key verifies exactly the signatures of its private key.    *)
(***************************************************************************)
EXTENDS Integers, Sequences, FiniteSets, TLC

\* ------------------------------------------------------------------ bounds
\* Largest number of fields of a payload or response handed in by the caller.
MaxFields == 2
\* Largest number of body chunks of one HTTP response.
MaxChunks == 2
\* Largest number of verifyRespons calls on one response object.
MaxVerify == 2

\* ---------------------------------------------------------------- literals
K_date == <<100, 97, 116, 101>>  \* "date"
K_random == <<114, 97, 110, 100, 111, 109>>  \* "random"
K_sign == <<115, 105, 103, 110>>  \* "sign"
K_Z == <<90>>  \* "Z"
K_mid == <<109, 105, 100>>  \* "mid"
K_aid == <<97, 105, 100>>  \* "aid"
K_clientType == <<99, 108, 105, 101, 110, 116, 84, 121, 112, 101>>  \* "clientType"
K_state == <<115, 116, 97, 116, 101>>  \* "state"
K_scope == <<115, 99, 111, 112, 101>>  \* "scope"
K_responseType == <<114, 101, 115, 112, 111, 110, 115, 101, 84, 121, 112, 101>>  \* "responseType"
K_callback == <<99, 97, 108, 108, 98, 97, 99, 107>>  \* "callback"
K_grantType == <<103, 114, 97, 110, 116, 84, 121, 112, 101>>  \* "grantType"
K_code == <<99, 111, 100, 101>>  \* "code"
K_openId == <<111, 112, 101, 110, 73, 100>>  \* "openId"
K_treasureType == <<116, 114, 101, 97, 115, 117, 114, 101, 84, 121, 112, 101>>  \* "treasureType"
K_treasureId == <<116, 114, 101, 97, 115, 117, 114, 101, 73, 100>>  \* "treasureId"
K_treasureAmount == <<116, 114, 101, 97, 115, 117, 114, 101, 65, 109, 111, 117, 110, 116>>  \* "treasureAmount"
K_refToken == <<114, 101, 102, 84, 111, 107, 101, 110>>  \* "refToken"
PRIFIX == <<99, 109, 98, 108, 105, 102, 101, 58, 47, 47>>  \* "cmblife://"
HOST == <<111, 112, 101, 110, 46, 99, 109, 98, 99, 104, 105, 110, 97, 46, 99, 111, 109>>  \* "open.cmbchina.com"
S_h5 == <<104, 53>>  \* "h5"
S_app == <<97, 112, 112>>  \* "app"
S_defaultScope == <<100, 101, 102, 97, 117, 108, 116, 83, 99, 111, 112, 101>>  \* "defaultScope"
S_code == <<99, 111, 100, 101>>  \* "code"
S_authorizationCode == <<97, 117, 116, 104, 111, 114, 105, 122, 97, 116, 105, 111, 110, 67, 111, 100, 101>>  \* "authorizationCode"
S_javascript == <<106, 97, 118, 97, 115, 99, 114, 105, 112, 116, 58>>  \* "javascript:"
S_http == <<104, 116, 116, 112>>  \* "http"
S_json == <<46, 106, 115, 111, 110>>  \* ".json"
S_approval == <<97, 112, 112, 114, 111, 118, 97, 108>>  \* "approval"
S_accessToken == <<97, 99, 99, 101, 115, 115, 84, 111, 107, 101, 110>>  \* "accessToken"
S_increaseTreasure == <<105, 110, 99, 114, 101, 97, 115, 101, 84, 114, 101, 97, 115, 117, 114, 101>>  \* "increaseTreasure"
S_queryIncreaseTreasure == <<113, 117, 101, 114, 121, 73, 110, 99, 114, 101, 97, 115, 101, 84, 114, 101, 97, 115, 117, 114, 101>>  \* "queryIncreaseTreasure"
S_gateway == <<47, 65, 99, 99, 101, 115, 115, 71, 97, 116, 101, 119, 97, 121, 47, 116, 114, 97, 110, 115, 73, 110, 47>>  \* "/AccessGateway/transIn/"

\* ------------------------------------------------------------------ values
Num(n) == [t |-> "num", n |-> n, s |-> <<>>]
Str(s) == [t |-> "str", n |-> 0, s |-> s]
Undefined == [t |-> "undef", n |-> 0, s |-> <<>>]

\* !v of JavaScript: undefined, 0 and "" are falsy.
Falsy(v) == v.t = "undef" \/ (v.t = "num" /\ v.n = 0) \/ (v.t = "str" /\ v.s = <<>>)

RECURSIVE NumToStr(_)
\* String(n) for an integer n >= 0: its decimal digits.
NumToStr(n) == IF n < 10 THEN <<48 + n>> ELSE NumToStr(n \div 10) \o <<48 + (n % 10)>>

\* `${v}`: the string form of a value inside a template literal.
ToStr(v) == IF v.t = "num" THEN NumToStr(v.n)
            ELSE IF v.t = "str" THEN v.s
            ELSE <<117, 110, 100, 101, 102, 105, 110, 101, 100>>

\* ----------------------------------------------------------------- objects
Keys(o) == [i \in 1..Len(o) |-> o[i].k]
Has(o, k) == \E i \in 1..Len(o) : o[i].k = k
Get(o, k) == IF Has(o, k) THEN o[CHOOSE i \in 1..Len(o) : o[i].k = k].v ELSE Undefined
\* o[k] = v: an existing member keeps its place, a new one goes last.
Put(o, k, v) == IF Has(o, k)
                THEN [i \in 1..Len(o) |-> IF o[i].k = k THEN [k |-> k, v |-> v] ELSE o[i]]
                ELSE Append(o, [k |-> k, v |-> v])
RemoveAt(s, j) == [i \in 1..(Len(s) - 1) |-> IF i < j THEN s[i] ELSE s[i + 1]]
\* delete o[k]
Delete(o, k) == IF Has(o, k) THEN RemoveAt(o, CHOOSE i \in 1..Len(o) : o[i].k = k) ELSE o

\* ----------------------------------------------------------- sort and join
\* Array.prototype.sort without comparator: ascending by UTF-16 code units.
LexLess(a, b) ==
  \E i \in 1..(Len(a) + 1) :
    /\ i <= Len(b)
    /\ \A j \in 1..(i - 1) : a[j] = b[j]
    /\ (i = Len(a) + 1 \/ a[i] < b[i])

RECURSIVE InsertSorted(_, _)
InsertSorted(x, s) == IF s = <<>> THEN <<x>>
                      ELSE IF LexLess(x, Head(s)) THEN <<x>> \o s
                      ELSE <<Head(s)>> \o InsertSorted(x, Tail(s))

RECURSIVE SortAsc(_)
SortAsc(s) == IF s = <<>> THEN <<>> ELSE InsertSorted(Head(s), SortAsc(Tail(s)))

RECURSIVE Join(_, _)
\* arr.join(sep)
Join(arr, sep) == IF arr = <<>> THEN <<>>
                  ELSE IF Len(arr) = 1 THEN arr[1]
                  ELSE arr[1] \o sep \o Join(Tail(arr), sep)

RECURSIVE Concat(_)
\* Buffer.concat(buffers).toString("utf8") for ASCII bodies
Concat(bufs) == IF bufs = <<>> THEN <<>> ELSE Head(bufs) \o Concat(Tail(bufs))

\* ------------------------------------------------------- dateStr, random
pad(n) == IF n < 10 THEN <<48>> \o NumToStr(n) ELSE NumToStr(n)

\* d is a Date: getMonth() is 0-based.
dateStr(d) == NumToStr(d.year) \o pad(d.month + 1) \o pad(d.date) \o pad(d.hours)
              \o pad(d.minutes) \o pad(d.seconds)

HexDigit(x) == IF x < 10 THEN 48 + x ELSE 87 + x
RECURSIVE HexOf(_)
\* Buffer.toString("hex"): two lowercase hex digits for each byte
HexOf(bytes) == IF bytes = <<>> THEN <<>>
                ELSE <<HexDigit(Head(bytes) \div 16), HexDigit(Head(bytes) % 16)>> \o HexOf(Tail(bytes))

\* bytes is what randomBytes(num) returned.
randomString(num, bytes) == SubSeq(HexOf(bytes), 1, num)

\* ------------------------------------------------------- percent-encoding
\* A-Z a-z 0-9 - _ . ! ~ * ' ( )
Unreserved == (65..90) \cup (97..122) \cup (48..57) \cup {45, 95, 46, 33, 126, 42, 39, 40, 41}
UpperHex(x) == IF x < 10 THEN 48 + x ELSE 55 + x

EncodeNone(s) == s
\* one code unit of encodeURIComponent: kept, or %XX in upper-case hex
EncodeUnit(c) == IF c \in Unreserved THEN <<c>>
                 ELSE <<37, UpperHex(c \div 16), UpperHex(c % 16)>>

RECURSIVE encodeURIComponent(_)
\* unit by unit, left to right (evaluated by halves to keep the nesting shallow)
encodeURIComponent(s) ==
  IF s = <<>> THEN <<>>
  ELSE IF Len(s) = 1 THEN EncodeUnit(s[1])
  ELSE encodeURIComponent(SubSeq(s, 1, Len(s) \div 2))
       \o encodeURIComponent(SubSeq(s, Len(s) \div 2 + 1, Len(s)))

\* ------------------------------------------------------------- signatures
\* A public key and the private key it belongs to (PEM contents).
KeyPairs == { << <<107>>, <<75>> >>, << <<108>>, <<76>> >> }
SignatureBytes(key, msg) == key \o msg
Base64Encode(bytes) == bytes \o <<61, 61>>
\* new Buffer(text, "base64"): padding dropped; never throws
Base64Decode(text) == IF Len(text) >= 2 /\ SubSeq(text, Len(text) - 1, Len(text)) = <<61, 61>>
                      THEN SubSeq(text, 1, Len(text) - 2) ELSE text
\* createSign("RSA-SHA256").update(msg).sign(key, "base64")
RsaSha256Base64(key, msg) == Base64Encode(SignatureBytes(key, msg))
\* createVerify("SHA256").update(msg).verify(publicKey, signature)
RsaVerify(publicKey, msg, signature) ==
  \E kp \in KeyPairs : kp[1] = publicKey /\ signature = SignatureBytes(kp[2], msg)

\* ------------------------------------------------------------- constructor
\* The files the constructor can read: <<path, contents>>.
FileSystem == { << <<99, 109, 98, 46, 107, 101, 121>>, <<75>> >>,
                << <<112, 117, 98, 46, 112, 101, 109>>, <<107>> >>,
                << <<98, 97, 110, 107, 46, 112, 101, 109>>, <<108>> >> }
readFileSync(path) == (CHOOSE f \in FileSystem : f[1] = path)[2]

\* new CMB(options); an option left out is <<>> (falsy, like undefined).
Construct(options) ==
  [mid |-> options.mid,
   aid |-> options.aid,
   key |-> readFileSync(options.key),
   defaultType |-> IF options.defaultType = <<>> THEN S_h5 ELSE options.defaultType,
   host |-> IF options.host = <<>> THEN HOST ELSE options.host,
   publicKey |-> IF options.publicKey = <<>> THEN <<>> ELSE readFileSync(options.publicKey)]

\* ------------------------------------------------------------------ signer
\* if (!data.date) data.date = dateStr(); if (!data.random) data.random = randomString(16)
InjectDefaults(data, now, bytes) ==
  LET d1 == IF Falsy(Get(data, K_date)) THEN Put(data, K_date, Str(dateStr(now))) ELSE data
  IN IF Falsy(Get(d1, K_random)) THEN Put(d1, K_random, Str(randomString(16, bytes))) ELSE d1

UnsortedKeys(data) == Keys(data)
\* Object.keys(data).sort()
SortedKeys(data) == SortAsc(Keys(data))

\* for (const key of keys) strArr.push(`${key}=${data[key]}`)
StrArr(data) ==
  LET keys == SortedKeys(data)
  IN [i \in 1..Len(keys) |-> keys[i] \o <<61>> \o ToStr(Get(data, keys[i]))]

SignStrNoPrefix(prifix, data) == Join(StrArr(data), <<38>>)
\* `${prifix}?${strArr.join("&")}`
SignStr(prifix, data) == prifix \o <<63>> \o Join(StrArr(data), <<38>>)

signOrg(key, prifix, data, now, bytes) ==
  LET d == InjectDefaults(data, now, bytes)
  IN Put(d, K_sign, Str(RsaSha256Base64(key, SignStr(prifix, d))))

signJson(key, funcName, data, now, bytes) == signOrg(key, funcName \o S_json, data, now, bytes)

signCmblife(key, funcName, data, now, bytes) ==
  LET signData == signOrg(key, PRIFIX \o funcName, data, now, bytes)
      keys == Keys(signData)
      strArr == [i \in 1..Len(keys) |->
                   keys[i] \o <<61>> \o encodeURIComponent(ToStr(Get(signData, keys[i])))]
  IN PRIFIX \o funcName \o <<63>> \o Join(strArr, <<38>>)

\* ---------------------------------------------------------------- verifier
VerifySkipsNoSign(publicKey, res) == Falsy(Get(res, K_sign))
\* if (!this.publicKey || !res.sign) return false
VerifySkips(publicKey, res) == publicKey = <<>> \/ Falsy(Get(res, K_sign))

\* Object.keys(res).sort() and the key=value strings, once sign is deleted
VerifyStrArr(res) ==
  LET keys == SortAsc(Keys(res))
  IN [i \in 1..Len(keys) |-> keys[i] \o <<61>> \o ToStr(Get(res, keys[i]))]

\* the string handed to verify.update
VerifyStr(res) == Join(VerifyStrArr(Delete(res, K_sign)), <<38>>)

\* what verifyRespons leaves in the caller's object
ResAfterVerify(publicKey, res) == IF VerifySkips(publicKey, res) THEN res ELSE Delete(res, K_sign)

verifyRespons(publicKey, res) ==
  IF VerifySkips(publicKey, res) THEN FALSE
  ELSE RsaVerify(publicKey, VerifyStr(res), Base64Decode(Get(res, K_sign).s))

\* ------------------------------------------------------------ operations
\* callback.indexOf("http") === 0
StartsWith(s, p) == Len(s) >= Len(p) /\ SubSeq(s, 1, Len(p)) = p

ApprovalData(self, state, callback) ==
  << [k |-> K_mid, v |-> Str(self.mid)],
     [k |-> K_aid, v |-> Str(self.aid)],
     [k |-> K_clientType, v |-> Str(self.defaultType)],
     [k |-> K_state, v |-> Str(state)],
     [k |-> K_scope, v |-> Str(S_defaultScope)],
     [k |-> K_responseType, v |-> Str(S_code)],
     [k |-> K_callback, v |-> Str(IF StartsWith(callback, S_http) THEN callback
                                  ELSE S_javascript \o callback)] >>

getApproval(self, state, callback, now, bytes) ==
  signCmblife(self.key, S_approval, ApprovalData(self, state, callback), now, bytes)

AccessTokenData(self, code) ==
  << [k |-> K_mid, v |-> Str(self.mid)],
     [k |-> K_aid, v |-> Str(self.aid)],
     [k |-> K_clientType, v |-> Str(self.defaultType)],
     [k |-> K_grantType, v |-> Str(S_authorizationCode)],
     [k |-> K_code, v |-> Str(code)] >>

\* ms1, ms2: what the two calls of Date.now() returned.
IncreaseTreasureData(self, openid, amount, ms1, ms2) ==
  << [k |-> K_openId, v |-> Str(openid)],
     [k |-> K_mid, v |-> Str(self.mid)],
     [k |-> K_aid, v |-> Str(self.aid)],
     [k |-> K_random, v |-> Num(ms1)],
     [k |-> K_treasureType, v |-> Num(0)],
     [k |-> K_treasureId, v |-> Num(0)],
     [k |-> K_treasureAmount, v |-> Num(amount)],
     [k |-> K_refToken, v |-> Num(ms2)] >>

QueryIncreaseTreasureData(self, openid, refToken, ms1) ==
  << [k |-> K_openId, v |-> Str(openid)],
     [k |-> K_mid, v |-> Str(self.mid)],
     [k |-> K_aid, v |-> Str(self.aid)],
     [k |-> K_random, v |-> Num(ms1)],
     [k |-> K_treasureType, v |-> Num(0)],
     [k |-> K_refToken, v |-> Str(refToken)] >>

\* --------------------------------------------------------------- transport
\* querystring.stringify(data): escaped key=value pairs in Object.keys order
QsStringify(data) ==
  Join([i \in 1..Len(data) |->
          encodeURIComponent(data[i].k) \o <<61>> \o encodeURIComponent(ToStr(data[i].v))],
       <<38>>)

\* the options and body post() hands to request()
PostRequest(hostname, path, data) ==
  LET dataString == QsStringify(data)
  IN [hostname |-> hostname, path |-> path, method |-> "POST",
      contentType |-> "application/x-www-form-urlencoded",
      contentLength |-> Len(dataString), body |-> dataString]

\* JSON.parse for the bodies of the model: an object whose members are
\* "key":"string" without escapes or white space; every other body the
\* model delivers is not JSON at all.
NoJson == [ok |-> FALSE, obj |-> <<>>]

\* the closing quote of the string opening at s[i], 0 if there is none
StringEnd(s, i) ==
  LET qs == {j \in (i + 1)..Len(s) : s[j] = 34}
  IN IF i > Len(s) \/ s[i] # 34 \/ qs = {} THEN 0
     ELSE CHOOSE j \in qs : \A q \in qs : j <= q

RECURSIVE ParseMembers(_, _, _)
ParseMembers(s, i, acc) ==
  LET ke == StringEnd(s, i)
      ve == IF ke # 0 /\ ke + 1 <= Len(s) /\ s[ke + 1] = 58 THEN StringEnd(s, ke + 2) ELSE 0
  IN IF ke = 0 \/ ve = 0 \/ ve + 1 > Len(s) THEN NoJson
     ELSE LET key == SubSeq(s, i + 1, ke - 1)
              val == SubSeq(s, ke + 3, ve - 1)
              next == Put(acc, key, Str(val))
          IN IF \E j \in 1..Len(key) : key[j] = 92 \/ key[j] < 32 THEN NoJson
             ELSE IF \E j \in 1..Len(val) : val[j] = 92 \/ val[j] < 32 THEN NoJson
             ELSE IF s[ve + 1] = 125 /\ ve + 1 = Len(s) THEN [ok |-> TRUE, obj |-> next]
             ELSE IF s[ve + 1] = 44 THEN ParseMembers(s, ve + 2, next)
             ELSE NoJson

JsonParse(s) ==
  IF s = <<123, 125>> THEN [ok |-> TRUE, obj |-> <<>>]
  ELSE IF Len(s) >= 2 /\ s[1] = 123 THEN ParseMembers(s, 2, <<>>)
  ELSE NoJson

StatusNeverRejected(statusCode) == FALSE
\* if (response.statusCode !== 200) return reject(...)
StatusRejected(statusCode) == statusCode # 200

\* resolve and reject of a promise: only the first settles it
Pending == [state |-> "pending", code |-> 0, value |-> <<>>, message |-> ""]
Settle(promise, outcome) == IF promise.state = "pending" THEN outcome ELSE promise

\* ------------------------------------------------------------------ inputs
Options ==
  { [mid |-> <<77, 49>>, aid |-> <<65, 49>>, key |-> <<99, 109, 98, 46, 107, 101, 121>>,
     defaultType |-> o[1], host |-> o[2], publicKey |-> o[3]] :
      o \in { << <<>>, <<>>, <<>> >>,
              << S_app, <<>>, <<112, 117, 98, 46, 112, 101, 109>> >>,
              << <<>>, <<120, 46, 99, 110>>, <<98, 97, 110, 107, 46, 112, 101, 109>> >> } }

\* What new Date() and Date.now() can return (ms kept within 32 bits).
Clocks ==
  { [year |-> 2019, month |-> 0, date |-> 5, hours |-> 9, minutes |-> 30, seconds |-> 7,
     ms |-> 1546651807],
    [year |-> 2018, month |-> 10, date |-> 23, hours |-> 14, minutes |-> 3, seconds |-> 59,
     ms |-> 1542981839] }

\* What randomBytes(16) can return.
RandomBytes == { [i \in 1..16 |-> 171], [i \in 1..16 |-> (i * 17) % 256] }

PayloadKeys == {K_date, K_random, K_sign, K_Z}
\* The values a caller's field can hold: 0 and "" are the falsy ones.
ValsOf(k) == IF k \in {K_date, K_random} THEN {Num(0), Str(<<>>), Str(<<55>>)}
             ELSE IF k = K_sign THEN {Str(<<55>>)}
             ELSE {Num(0), Str(<<55>>)}
PayloadVals == UNION {ValsOf(k) : k \in PayloadKeys}
TamperVals == {Num(7), Str(<<56>>)}

\* The objects with at most MaxFields members, keys among ks, in every order.
Objects(ks) ==
  UNION { { o \in [1..n -> [k : ks, v : PayloadVals]] :
              /\ \A i \in 1..n : o[i].v \in ValsOf(o[i].k)
              /\ \A i, j \in 1..n : o[i].k = o[j].k => i = j } : n \in 0..MaxFields }

Prefixes == {S_accessToken \o S_json, PRIFIX \o S_approval}

\* The remote service signs a response over the canonical string of its
\* fields without prefix; "prefixed" is a response signed the way requests are.
RemoteSigned(fields, form, key) ==
  LET canon == Join([i \in 1..Len(SortAsc(Keys(fields))) |->
                       SortAsc(Keys(fields))[i] \o <<61>>
                         \o ToStr(Get(fields, SortAsc(Keys(fields))[i]))], <<38>>)
  IN CASE form = "none" -> fields
       [] form = "empty" -> Append(fields, [k |-> K_sign, v |-> Str(<<>>)])
       [] form = "plain" -> Append(fields, [k |-> K_sign, v |-> Str(RsaSha256Base64(key, canon))])
       [] form = "prefixed" ->
            Append(fields, [k |-> K_sign,
                            v |-> Str(RsaSha256Base64(key, S_accessToken \o S_json \o <<63>> \o canon))])

Strings == {<<115, 49>>, <<97, 32, 98>>}
Callbacks == {<<104, 116, 116, 112, 58, 47, 47, 99, 98>>, <<99, 98>>, <<>>}
Statuses == {200, 404, 500}
Chunks == {<<123, 34, 97, 34, 58>>, <<34, 49, 34, 125>>, <<123, 125>>, <<60, 104, 62>>}

\* ------------------------------------------------------------------- state
VARIABLES
  self,        \* the client: the fields the constructor set
  data,        \* the caller's object: the payload, or the response being verified
  dataIn,      \* that object as it was when the last operation was called
  last,        \* the last operation
  prifix,      \* the prefix of the last _signOrg call
  signStr,     \* the string last handed to signFn.update or verify.update
  ret,         \* what the last verifyRespons call returned
  prevRet,     \* what the verifyRespons call before it returned
  checked,     \* whether the last verifyRespons call ran verify.verify
  verifyCalls, \* verifyRespons calls on the caller's object so far
  origin,      \* who signed the caller's object, how, and with which key
  tampered,    \* "no", or how a field was changed after signing
  url,         \* what getApproval returned
  req,         \* the requests handed to https.request
  pc,          \* where the request is: "idle", "sent", "responded", "ended", "failed"
  status,      \* response.statusCode
  listening,   \* whether the data, end and error listeners are on the response
  buffers,     \* the chunks collected
  promise,     \* the promise request() returned
  parseTried,  \* whether JSON.parse was called
  uncaught     \* whether an exception left a listener uncaught

vars == <<self, data, dataIn, last, prifix, signStr, ret, prevRet, checked, verifyCalls,
          origin, tampered, url, req, pc, status, listening, buffers, promise, parseTried,
          uncaught>>

signVars == <<prifix, signStr, origin, tampered>>
verifyVars == <<ret, prevRet, checked, verifyCalls>>
netVars == <<req, pc, status, listening, buffers, promise, parseTried, uncaught>>

NoOrigin == [by |-> "none", form |-> "none", key |-> <<>>]

Init ==
  /\ self \in {Construct(o) : o \in Options}
  /\ data = <<>>
  /\ dataIn = <<>>
  /\ last = "new"
  /\ prifix = <<>>
  /\ signStr = <<>>
  /\ ret = FALSE
  /\ prevRet = FALSE
  /\ checked = FALSE
  /\ verifyCalls = 0
  /\ origin = NoOrigin
  /\ tampered = "no"
  /\ url = <<>>
  /\ req = <<>>
  /\ pc = "idle"
  /\ status = 0
  /\ listening = FALSE
  /\ buffers = <<>>
  /\ promise = Pending
  /\ parseTried = FALSE
  /\ uncaught = FALSE

\* ----------------------------------------------------------------- actions
\* cmb._signOrg(prefix, d) on a payload d of the caller
SignOrg(p, d, now, bytes) ==
  /\ last = "new"
  /\ dataIn' = d
  /\ prifix' = p
  /\ signStr' = SignStr(p, InjectDefaults(d, now, bytes))
  /\ data' = signOrg(self.key, p, d, now, bytes)
  /\ origin' = [by |-> "signer", form |-> "prefixed", key |-> self.key]
  /\ last' = "signOrg"
  /\ UNCHANGED <<self, tampered, url>>
  /\ UNCHANGED verifyVars
  /\ UNCHANGED netVars

\* A response of the remote service reaches the caller as an object.
Response(fields, form, key) ==
  /\ last = "new"
  /\ data' = RemoteSigned(fields, form, key)
  /\ dataIn' = data'
  /\ origin' = [by |-> "remote", form |-> form, key |-> IF form \in {"none", "empty"} THEN <<>> ELSE key]
  /\ last' = "response"
  /\ UNCHANGED <<self, prifix, signStr, tampered, url>>
  /\ UNCHANGED verifyVars
  /\ UNCHANGED netVars

\* The caller changes the value of one field other than sign after signing.
Tamper(k, v) ==
  /\ last \in {"signOrg", "response"}
  /\ Has(data, k)
  /\ k # K_sign
  /\ v # Get(data, k)
  /\ dataIn' = data
  /\ data' = Put(data, k, v)
  /\ tampered' = IF ToStr(v) = ToStr(Get(data, k)) THEN "sameText" ELSE "changed"
  /\ last' = "tamper"
  /\ UNCHANGED <<self, prifix, signStr, origin, url>>
  /\ UNCHANGED verifyVars
  /\ UNCHANGED netVars

\* cmb.verifyRespons(data)
VerifyRespons ==
  /\ last \in {"signOrg", "response", "tamper", "verifyRespons"}
  /\ verifyCalls < MaxVerify
  /\ dataIn' = data
  /\ data' = ResAfterVerify(self.publicKey, data)
  /\ ret' = verifyRespons(self.publicKey, data)
  /\ prevRet' = ret
  /\ checked' = ~VerifySkips(self.publicKey, data)
  /\ signStr' = IF VerifySkips(self.publicKey, data) THEN signStr ELSE VerifyStr(data)
  /\ verifyCalls' = verifyCalls + 1
  /\ last' = "verifyRespons"
  /\ UNCHANGED <<self, prifix, origin, tampered, url>>
  /\ UNCHANGED netVars

\* cmb.getApproval(state, callback)
GetApproval(state, callback, now, bytes) ==
  /\ last = "new"
  /\ dataIn' = ApprovalData(self, state, callback)
  /\ prifix' = PRIFIX \o S_approval
  /\ signStr' = SignStr(prifix', InjectDefaults(dataIn', now, bytes))
  /\ data' = signOrg(self.key, prifix', dataIn', now, bytes)
  /\ url' = getApproval(self, state, callback, now, bytes)
  /\ origin' = [by |-> "signer", form |-> "prefixed", key |-> self.key]
  /\ last' = "getApproval"
  /\ UNCHANGED <<self, tampered>>
  /\ UNCHANGED verifyVars
  /\ UNCHANGED netVars

\* post(): the signed payload goes out in one request; the promise is pending.
Post(op, funcName, d, now, bytes) ==
  /\ last = "new"
  /\ dataIn' = d
  /\ prifix' = funcName \o S_json
  /\ signStr' = SignStr(prifix', InjectDefaults(d, now, bytes))
  /\ data' = signJson(self.key, funcName, d, now, bytes)
  /\ req' = Append(req, PostRequest(self.host, S_gateway \o funcName \o S_json, data'))
  /\ pc' = "sent"
  /\ promise' = Pending
  /\ origin' = [by |-> "signer", form |-> "prefixed", key |-> self.key]
  /\ last' = op
  /\ UNCHANGED <<self, tampered, url, status, listening, buffers, parseTried, uncaught>>
  /\ UNCHANGED verifyVars

\* cmb.getAccessToken(code)
GetAccessToken(code, now, bytes) ==
  Post("getAccessToken", S_accessToken, AccessTokenData(self, code), now, bytes)

\* cmb.increaseTreasure(openid, amount)
IncreaseTreasure(openid, amount, now, later, bytes) ==
  Post("increaseTreasure", S_increaseTreasure,
       IncreaseTreasureData(self, openid, amount, now.ms, now.ms + later), now, bytes)

\* cmb.queryIncreaseTreasure(openid, refToken)
QueryIncreaseTreasure(openid, refToken, now, bytes) ==
  Post("queryIncreaseTreasure", S_queryIncreaseTreasure,
       QueryIncreaseTreasureData(self, openid, refToken, now.ms), now, bytes)

\* the callback of https.request: the response's status line and headers arrived
OnResponse(statusCode) ==
  /\ pc = "sent"
  /\ status' = statusCode
  /\ pc' = "responded"
  /\ IF StatusRejected(statusCode)
     THEN /\ promise' = Settle(promise, [state |-> "rejected", code |-> statusCode,
                                         value |-> <<>>, message |-> ""])
          /\ UNCHANGED <<listening, buffers>>
     ELSE /\ listening' = TRUE
          /\ buffers' = <<>>
          /\ UNCHANGED promise
  /\ UNCHANGED <<self, data, dataIn, last, url, req, parseTried, uncaught>>
  /\ UNCHANGED signVars
  /\ UNCHANGED verifyVars

\* response "data": delivered only to a listener
OnData(chunk) ==
  /\ pc = "responded"
  /\ listening
  /\ Len(buffers) < MaxChunks
  /\ buffers' = Append(buffers, chunk)
  /\ UNCHANGED <<self, data, dataIn, last, url, req, pc, status, listening, promise,
                 parseTried, uncaught>>
  /\ UNCHANGED signVars
  /\ UNCHANGED verifyVars

\* response "end": JSON.parse throws inside the listener on a body that is not JSON
OnEnd ==
  /\ pc = "responded"
  /\ listening
  /\ pc' = "ended"
  /\ parseTried' = TRUE
  /\ LET parsed == JsonParse(Concat(buffers))
     IN IF parsed.ok
        THEN /\ promise' = Settle(promise, [state |-> "resolved", code |-> 0,
                                            value |-> parsed.obj, message |-> ""])
             /\ UNCHANGED uncaught
        ELSE /\ uncaught' = TRUE
             /\ UNCHANGED promise
  /\ UNCHANGED <<self, data, dataIn, last, url, req, status, listening, buffers>>
  /\ UNCHANGED signVars
  /\ UNCHANGED verifyVars

\* response "error"
OnResponseError ==
  /\ pc = "responded"
  /\ listening
  /\ pc' = "failed"
  /\ promise' = Settle(promise, [state |-> "rejected", code |-> status, value |-> <<>>,
                                 message |-> "Error: aborted"])
  /\ UNCHANGED <<self, data, dataIn, last, url, req, status, listening, buffers, parseTried,
                 uncaught>>
  /\ UNCHANGED signVars
  /\ UNCHANGED verifyVars

\* request "error": DNS, connection reset, TLS failure
OnRequestError ==
  /\ pc \in {"sent", "responded"}
  /\ pc' = "failed"
  /\ promise' = Settle(promise, [state |-> "rejected", code |-> 0, value |-> <<>>,
                                 message |-> "Error: ECONNRESET"])
  /\ UNCHANGED <<self, data, dataIn, last, url, req, status, listening, buffers, parseTried,
                 uncaught>>
  /\ UNCHANGED signVars
  /\ UNCHANGED verifyVars

Next ==
  \/ \E p \in Prefixes, d \in Objects(PayloadKeys), now \in Clocks, bytes \in RandomBytes :
       SignOrg(p, d, now, bytes)
  \/ \E fields \in Objects(PayloadKeys \ {K_sign}), form \in {"none", "empty", "plain", "prefixed"},
        key \in {<<75>>, <<76>>} : Response(fields, form, key)
  \/ \E k \in PayloadKeys, v \in TamperVals : Tamper(k, v)
  \/ VerifyRespons
  \/ \E state \in Strings, callback \in Callbacks, now \in Clocks, bytes \in RandomBytes :
       GetApproval(state, callback, now, bytes)
  \/ \E code \in Strings, now \in Clocks, bytes \in RandomBytes : GetAccessToken(code, now, bytes)
  \/ \E openid \in Strings, amount \in {0, 25}, now \in Clocks, later \in {0, 1},
        bytes \in RandomBytes : IncreaseTreasure(openid, amount, now, later, bytes)
  \/ \E openid \in Strings, refToken \in Strings, now \in Clocks, bytes \in RandomBytes :
       QueryIncreaseTreasure(openid, refToken, now, bytes)
  \/ \E statusCode \in Statuses : OnResponse(statusCode)
  \/ \E chunk \in Chunks : OnData(chunk)
  \/ OnEnd
  \/ OnResponseError
  \/ OnRequestError

Spec == Init /\ [][Next]_vars

\* ------------------------------------------------- vocabulary of the claims
IsAscending(keys) == \A i \in 1..(Len(keys) - 1) : LexLess(keys[i], keys[i + 1])

\* every order in which the members of o can have been inserted
Orders(o) == { [i \in 1..Len(o) |-> o[f[i]]] : f \in Permutations(1..Len(o)) }

\* the payload as _signOrg signed it: data before the sign field was assigned
SignedPayload == IF Has(dataIn, K_sign) THEN Put(data, K_sign, Get(dataIn, K_sign))
                 ELSE Delete(data, K_sign)

\* key=value of the members of o, keys ascending, joined by &
Canonical(o) ==
  LET ks == CHOOSE p \in Orders(Keys(o)) : IsAscending(p)
  IN Join([i \in 1..Len(ks) |-> ks[i] \o <<61>> \o ToStr(Get(o, ks[i]))], <<38>>)

ClientKeyMatches == <<self.publicKey, self.key>> \in KeyPairs

FirstIndex(s, c) == IF \E i \in 1..Len(s) : s[i] = c
                    THEN CHOOSE i \in 1..Len(s) : s[i] = c /\ \A j \in 1..(i - 1) : s[j] # c
                    ELSE 0

RECURSIVE SplitOn(_, _)
SplitOn(s, c) == IF FirstIndex(s, c) = 0 THEN <<s>>
                 ELSE <<SubSeq(s, 1, FirstIndex(s, c) - 1)>>
                      \o SplitOn(SubSeq(s, FirstIndex(s, c) + 1, Len(s)), c)

\* the part of a link up to its first ?, and the key=value pairs after it
UrlHead(u) == SubSeq(u, 1, FirstIndex(u, 63))
UrlPairs(u) ==
  LET parts == SplitOn(SubSeq(u, FirstIndex(u, 63) + 1, Len(u)), 38)
  IN [i \in 1..Len(parts) |->
        IF FirstIndex(parts[i], 61) = 0 THEN [k |-> parts[i], v |-> <<>>]
        ELSE [k |-> SubSeq(parts[i], 1, FirstIndex(parts[i], 61) - 1),
              v |-> SubSeq(parts[i], FirstIndex(parts[i], 61) + 1, Len(parts[i]))]]

HexValue(c) == IF c \in 48..57 THEN c - 48 ELSE IF c \in 65..70 THEN c - 55 ELSE 0
\* the text a percent-encoded string stands for
PercentDecode(v) ==
  LET starts == {i \in 1..Len(v) : ~(i > 1 /\ v[i - 1] = 37) /\ ~(i > 2 /\ v[i - 2] = 37)}
      nth(n) == CHOOSE i \in starts : Cardinality({j \in starts : j < i}) = n - 1
  IN [n \in 1..Cardinality(starts) |->
        IF v[nth(n)] = 37 /\ nth(n) + 2 <= Len(v)
        THEN 16 * HexValue(v[nth(n) + 1]) + HexValue(v[nth(n) + 2])
        ELSE v[nth(n)]]
IsPercentEncoded(v, raw) ==
  /\ \A i \in 1..Len(v) : v[i] \in Unreserved \cup {37}
  /\ PercentDecode(v) = raw

ApprovalKeys == <<K_mid, K_aid, K_clientType, K_state, K_scope, K_responseType, K_callback,
                  K_date, K_random, K_sign>>

\* the link is cmblife://approval? followed by pairs whose values are the
\* percent-encoded values of the signed payload, the sign pair last
UrlWellFormed ==
  /\ UrlHead(url) = PRIFIX \o S_approval \o <<63>>
  /\ Len(UrlPairs(url)) = Len(data)
  /\ UrlPairs(url)[Len(UrlPairs(url))].k = K_sign
  /\ \A i \in 1..Len(UrlPairs(url)) :
       /\ Has(data, UrlPairs(url)[i].k)
       /\ IsPercentEncoded(UrlPairs(url)[i].v, ToStr(Get(data, UrlPairs(url)[i].k)))

NetOps == {"getAccessToken", "increaseTreasure", "queryIncreaseTreasure"}

\* ------------------------------------------------------------------ claims
\* C1 as stated: the signer's output verifies true on a client holding the
\* matching public key, and false once a field other than sign was changed.
C1_RoundTrip ==
  (last = "verifyRespons" /\ verifyCalls = 1 /\ origin.by = "signer" /\ ClientKeyMatches)
    => (ret = (tampered = "no"))

\* C1 amended: verifyRespons returns false for the unmodified output of the
\* signer (signed over "<prefix>?" and the canonical string, verified over
\* the canonical string alone); it returns true for a mapping whose sign is
\* the signature, under the private key of the configured public key, of the
\* canonical string of its other fields without prefix, and false once the
\* value of such a field was changed to one with another string form.
C1_PrefixAsymmetry ==
  (last = "verifyRespons" /\ verifyCalls = 1) =>
    /\ (origin.by = "signer" /\ tampered = "no") => ret = FALSE
    /\ (origin.by = "remote" /\ origin.form = "plain"
          /\ <<self.publicKey, origin.key>> \in KeyPairs) => (ret = (tampered # "changed"))
    /\ ret = TRUE => (origin.by = "remote" /\ origin.form = "plain")

C1_Witness ==
  /\ last = "verifyRespons" /\ verifyCalls = 1 /\ origin.by = "signer" /\ ClientKeyMatches
  /\ tampered = "no" /\ checked /\ ret = FALSE /\ Len(dataIn) > 3

\* C2: a 200 response whose body is not JSON rejects the promise; the parse
\* failure is not left uncaught.
C2_MalformedJsonRejects ==
  (pc = "ended" /\ status = 200 /\ ~JsonParse(Concat(buffers)).ok)
    => (promise.state = "rejected" /\ ~uncaught)

\* C3: once a response with a status other than 200 arrived, the promise is
\* rejected with that status code, no listener is on the response, no chunk
\* was collected and JSON.parse was never called.
C3_Non200Rejects ==
  (pc \in {"responded", "failed"} /\ status # 0 /\ status # 200) =>
    /\ promise.state = "rejected" /\ promise.code = status
    /\ ~listening /\ buffers = <<>> /\ ~parseTried /\ ~uncaught

C3_Witness ==
  /\ last = "increaseTreasure" /\ pc = "failed" /\ status = 404
  /\ promise.state = "rejected" /\ promise.code = 404

\* C4: verifyRespons returns false without running a signature check when the
\* client has no public key or the response has no sign field; it returns
\* true only with a public key, a sign field and a signature that verifies.
C4_VerifyPreconditions ==
  last = "verifyRespons" =>
    /\ (self.publicKey = <<>> \/ ~Has(dataIn, K_sign)) => (ret = FALSE /\ ~checked)
    /\ ret = TRUE =>
         /\ self.publicKey # <<>> /\ Has(dataIn, K_sign) /\ checked
         /\ RsaVerify(self.publicKey, Canonical(Delete(dataIn, K_sign)),
                      Base64Decode(Get(dataIn, K_sign).s))

C4_Witness ==
  /\ last = "verifyRespons" /\ self.publicKey = <<>> /\ origin.form = "plain"
  /\ Has(dataIn, K_sign) /\ ret = FALSE /\ ~checked

\* C5 as stated: the link of getApproval is well formed and its pairs other
\* than sign come in ascending key order.
C5_SortedUrl ==
  last = "getApproval" =>
    /\ UrlWellFormed
    /\ IsAscending([i \in 1..(Len(UrlPairs(url)) - 1) |-> UrlPairs(url)[i].k])

\* C5 amended: the link of getApproval is cmblife://approval? followed by the
\* pairs in the order the payload's fields were inserted (mid, aid,
\* clientType, state, scope, responseType, callback, date, random), every
\* value percent-encoded, and the sign pair last.
C5_InsertionOrderUrl ==
  last = "getApproval" =>
    /\ UrlWellFormed
    /\ [i \in 1..Len(UrlPairs(url)) |-> UrlPairs(url)[i].k] = ApprovalKeys

C5_Witness ==
  /\ last = "getApproval" /\ Len(UrlPairs(url)) = 10
  /\ Get(dataIn, K_callback) = Str(<<104, 116, 116, 112, 58, 47, 47, 99, 98>>)
  /\ Get(dataIn, K_state) = Str(<<97, 32, 98>>)

\* C6: _signOrg sets a date (random) field the payload lacks, and the signed
\* string contains it; it leaves a date (random) field the payload has
\* unchanged, whatever its value, 0 and "" included.
C6_DefaultInjection ==
  last = "signOrg" =>
    \A k \in {K_date, K_random} :
      /\ Has(data, k)
      /\ Has(dataIn, k) => Get(data, k) = Get(dataIn, k)
      /\ signStr = prifix \o <<63>> \o Canonical(SignedPayload)

\* C7: the string the signer signs and the string the verifier checks do not
\* depend on the order in which the fields were inserted, and are the
\* key=value pairs in ascending key order joined by &.
C7_OrderIndependent ==
  /\ last = "signOrg" =>
       /\ \A p \in Orders(SignedPayload) : SignStr(prifix, p) = signStr
       /\ signStr = prifix \o <<63>> \o Canonical(SignedPayload)
  /\ (last = "verifyRespons" /\ checked) =>
       /\ \A p \in Orders(dataIn) : VerifyStr(p) = signStr
       /\ signStr = Canonical(Delete(dataIn, K_sign))

C7_Witness ==
  /\ last = "signOrg" /\ Len(dataIn) >= 2 /\ ~IsAscending(Keys(SignedPayload))
  /\ Keys(dataIn) = <<K_random, K_Z>>

\* C8: verifyRespons leaves the caller's response as it was, so a second
\* call on the same object returns what the first returned.
C8_VerifyKeepsResponse ==
  last = "verifyRespons" =>
    /\ data = dataIn
    /\ verifyCalls >= 2 => ret = prevRet

\* C9: a network operation issues exactly one request, and once the response
\* events are over (end, response error, request error, non-200 status) its
\* promise is settled.
C9_SettledOnce ==
  last \in NetOps =>
    /\ Len(req) = 1
    /\ (pc \in {"ended", "failed"} \/ (pc = "responded" /\ status # 200))
         => promise.state \in {"resolved", "rejected"}

\* C10: after _signOrg the sign field is the signature of "<prefix>?" and the
\* canonical string of all fields other than sign, and every field other
\* than sign, date and random keeps its value.
C10_SignatureInvariant ==
  last = "signOrg" =>
    /\ Get(data, K_sign)
         = Str(RsaSha256Base64(self.key, prifix \o <<63>> \o Canonical(Delete(data, K_sign))))
    /\ \A k \in PayloadKeys \ {K_sign, K_date, K_random} :
         Has(dataIn, k) => Get(data, k) = Get(dataIn, k)

====
